---- MODULE Spec2Model ----
(***************************************************************************)
(* Cup-and-handle pattern detection (src/logic.py).                        *)
(*                                                                         *)
(* A call is modelled as a small state machine: the inputs are drawn in    *)
(* Init, the default thresholds are filled in, the local extrema are       *)
(* extracted, the nested search runs, and (for detect_cup_and_handle) the  *)
(* boolean summary is taken.  Indices are 0-based as in the source; the    *)
(* price list is a TLA+ sequence, so prices[i] of the source is            *)
(* prices[i + 1] here.                                                     *)
(*                                                                         *)
(* The caller may repeat a call on the same arguments.  passed holds the   *)
(* threshold arguments as the caller passed them (the function rebinds     *)
(* its parameters to the defaults and writes to no argument), calls_left   *)
(* the calls still to be made after the current one, and first the         *)
(* outcome of the first call once a second one has started.                *)
(*                                                                         *)
(* Prices and price thresholds are Python floats.  They are written here   *)
(* by their decimal numerators: a price P stands for the float nearest to  *)
(* P / PriceScale (199 is 1.99) and a threshold T for the float nearest    *)
(* to T / ThresholdScale (5 is 0.005, 250 is 0.25).  The differences and   *)
(* products of the source are formed on these floats and rounded as        *)
(* binary64 arithmetic rounds them, so a comparison x - y <= t * x is      *)
(* decided on the rounded difference and the rounded product.              *)
(***************************************************************************)
EXTENDS Integers, Sequences, FiniteSets, TLC

VARIABLES entry, prices, window_size, price_thresholds, distance_thresholds,
          pc, maxima, minima, valid_patterns, exc, detected,
          passed, calls_left, first

vars == <<entry, prices, window_size, price_thresholds, distance_thresholds,
          pc, maxima, minima, valid_patterns, exc, detected,
          passed, calls_left, first>>

(***************************************************************************)
(* Bounds of the model.                                                    *)
(***************************************************************************)
MaxLen == 5        \* longest exhaustively enumerated price series
MaxPrice == 2      \* exhaustive series take their prices in 0..MaxPrice
MaxWindow == 2     \* window_size ranges over 0..MaxWindow
ExtraPeaks == 0    \* peaks of a zigzag series beyond the five the search needs

(***************************************************************************)
(* Program constants.                                                      *)
(***************************************************************************)
ThresholdScale == 1000
PriceScale == 100
DefaultWindow == 5
DefaultDistance == 10
DefaultPrice == 5
PreFilter == 4

None == -1                     \* an index argument that is None
NoneCfg == [none |-> TRUE]     \* a threshold argument that is None

DistanceKeys == {"a_b", "b_c", "c_d", "d_e"}
PriceKeys == {"a_b", "b_c", "a_c", "c_d", "b_d", "d_e"}

DefaultDistanceThresholds == [k \in DistanceKeys |-> DefaultDistance]
DefaultPriceThresholds == [k \in PriceKeys |-> DefaultPrice]

(***************************************************************************)
(* Python built-ins used by the source.                                    *)
(***************************************************************************)
Abs(x) == IF x < 0 THEN -x ELSE x
Min2(x, y) == IF x <= y THEN x ELSE y
Max2(x, y) == IF x >= y THEN x ELSE y
SeqRange(s) == {s[k] : k \in 1..Len(s)}
MinOf(s) == CHOOSE x \in SeqRange(s) : \A y \in SeqRange(s) : x <= y
MaxOf(s) == CHOOSE x \in SeqRange(s) : \A y \in SeqRange(s) : x >= y
At(s, i) == s[i + 1]
\* s[lo:hi] for 0 <= lo
Slice(s, lo, hi) == SubSeq(s, lo + 1, Min2(hi, Len(s)))
\* list(range(lo, hi))
RangeSeq(lo, hi) == [k \in 1..Max2(hi - lo, 0) |-> lo + k - 1]

RECURSIVE Flatten(_)
Flatten(ss) == IF ss = <<>> THEN <<>> ELSE Head(ss) \o Flatten(Tail(ss))

(***************************************************************************)
(* Python floats.  A float is an IEEE-754 binary64 number; its value is    *)
(* kept exactly as sg * mag * 2^ex, with the natural number mag written as *)
(* a little-endian list of limbs in base LimbBase (integers here are       *)
(* confined to 32 bits, a 53-bit significand is not).  Sums and products   *)
(* are formed exactly and then rounded to SignificandBits bits, to nearest *)
(* and ties to even, as the hardware does.  The prices and thresholds met  *)
(* here lie far inside the normal range, so neither overflow nor           *)
(* subnormal results arise.                                                *)
(***************************************************************************)
LimbBits == 15
LimbBase == 32768
SignificandBits == 53
GuardBits == 75

Sign(x) == IF x > 0 THEN 1 ELSE IF x < 0 THEN -1 ELSE 0

RECURSIVE Pow2(_)
Pow2(k) == IF k = 0 THEN 1 ELSE 2 * Pow2(k - 1)

RECURSIVE IntBits(_)
IntBits(n) == IF n = 0 THEN 0 ELSE 1 + IntBits(n \div 2)

Zeros(n) == [i \in 1..n |-> 0]
Limb(a, i) == IF i <= Len(a) THEN a[i] ELSE 0

RECURSIVE BigNorm(_)
BigNorm(a) ==
    IF a # <<>> /\ a[Len(a)] = 0 THEN BigNorm(SubSeq(a, 1, Len(a) - 1)) ELSE a

RECURSIVE BigOfNat(_)
BigOfNat(n) ==
    IF n = 0 THEN <<>> ELSE <<n % LimbBase>> \o BigOfNat(n \div LimbBase)

RECURSIVE BigAddFrom(_, _, _, _)
BigAddFrom(a, b, i, carry) ==
    IF i > Len(a) /\ i > Len(b)
    THEN IF carry = 0 THEN <<>> ELSE <<carry>>
    ELSE LET s == Limb(a, i) + Limb(b, i) + carry IN
         <<s % LimbBase>> \o BigAddFrom(a, b, i + 1, s \div LimbBase)
BigAdd(a, b) == BigNorm(BigAddFrom(a, b, 1, 0))

\* a - b for a >= b
RECURSIVE BigSubFrom(_, _, _, _)
BigSubFrom(a, b, i, borrow) ==
    IF i > Len(a) THEN <<>>
    ELSE LET s == Limb(a, i) - Limb(b, i) - borrow IN
         <<IF s < 0 THEN s + LimbBase ELSE s>>
            \o BigSubFrom(a, b, i + 1, IF s < 0 THEN 1 ELSE 0)
BigSub(a, b) == BigNorm(BigSubFrom(a, b, 1, 0))

RECURSIVE BigCmpFrom(_, _, _)
BigCmpFrom(a, b, i) ==
    IF i = 0 THEN 0
    ELSE IF a[i] # b[i] THEN Sign(a[i] - b[i]) ELSE BigCmpFrom(a, b, i - 1)
BigCmp(a, b) ==
    IF Len(a) # Len(b) THEN Sign(Len(a) - Len(b)) ELSE BigCmpFrom(a, b, Len(a))

\* a * k for 0 <= k < LimbBase
RECURSIVE BigMulSmallFrom(_, _, _, _)
BigMulSmallFrom(a, k, i, carry) ==
    IF i > Len(a)
    THEN IF carry = 0 THEN <<>> ELSE <<carry>>
    ELSE LET s == a[i] * k + carry IN
         <<s % LimbBase>> \o BigMulSmallFrom(a, k, i + 1, s \div LimbBase)
BigMulSmall(a, k) == BigNorm(BigMulSmallFrom(a, k, 1, 0))

RECURSIVE BigMulFrom(_, _, _)
BigMulFrom(a, b, j) ==
    IF j > Len(b) THEN <<>>
    ELSE BigAdd(Zeros(j - 1) \o BigMulSmall(a, b[j]), BigMulFrom(a, b, j + 1))
BigMul(a, b) == BigMulFrom(a, b, 1)

\* quotient and remainder of a by d, 0 < d <= LimbBase, from the high limb down
RECURSIVE BigDivSmallFrom(_, _, _, _)
BigDivSmallFrom(a, d, i, r) ==
    IF i = 0 THEN <<>>
    ELSE LET cur == r * LimbBase + a[i] IN
         BigDivSmallFrom(a, d, i - 1, cur % d) \o <<cur \div d>>
BigDivSmall(a, d) == BigNorm(BigDivSmallFrom(a, d, Len(a), 0))

RECURSIVE BigModSmallFrom(_, _, _, _)
BigModSmallFrom(a, d, i, r) ==
    IF i = 0 THEN r ELSE BigModSmallFrom(a, d, i - 1, (r * LimbBase + a[i]) % d)
BigModSmall(a, d) == BigModSmallFrom(a, d, Len(a), 0)

BigBits(a) ==
    IF a = <<>> THEN 0 ELSE LimbBits * (Len(a) - 1) + IntBits(a[Len(a)])
BigOdd(a) == a # <<>> /\ a[1] % 2 = 1
\* a * 2^k and floor(a / 2^k)
BigShl(a, k) ==
    IF a = <<>> THEN <<>>
    ELSE Zeros(k \div LimbBits) \o BigMulSmall(a, Pow2(k % LimbBits))
BigShr(a, k) ==
    IF k \div LimbBits >= Len(a) THEN <<>>
    ELSE BigDivSmall(SubSeq(a, k \div LimbBits + 1, Len(a)), Pow2(k % LimbBits))

FloatZero == [sg |-> 0, mag |-> <<>>, ex |-> 0]
DyNeg(x) == [x EXCEPT !.sg = -x.sg]
DyAbs(x) == [x EXCEPT !.sg = x.sg * x.sg]

\* exact product and exact sum
DyMul(x, y) ==
    IF x.sg = 0 \/ y.sg = 0 THEN FloatZero
    ELSE [sg |-> x.sg * y.sg, mag |-> BigMul(x.mag, y.mag), ex |-> x.ex + y.ex]

DyAdd(x, y) ==
    IF x.sg = 0 THEN y
    ELSE IF y.sg = 0 THEN x
    ELSE LET e == Min2(x.ex, y.ex)
             mx == BigShl(x.mag, x.ex - e)
             my == BigShl(y.mag, y.ex - e)
             c == BigCmp(mx, my)
         IN IF x.sg = y.sg THEN [sg |-> x.sg, mag |-> BigAdd(mx, my), ex |-> e]
            ELSE IF c = 0 THEN FloatZero
            ELSE IF c > 0 THEN [sg |-> x.sg, mag |-> BigSub(mx, my), ex |-> e]
            ELSE [sg |-> y.sg, mag |-> BigSub(my, mx), ex |-> e]

DySub(x, y) == DyAdd(x, DyNeg(y))
\* -1, 0 or 1 as x < y, x = y or x > y
DyCmp(x, y) == DySub(x, y).sg

\* the same value with a significand of exactly SignificandBits bits: the
\* significand is shifted left by s bits (right by -s when it is longer,
\* which happens when rounding up carries to 2^SignificandBits, all the
\* dropped bits being zero) and the exponent lowered by s
Normalized(x) ==
    LET s == SignificandBits - BigBits(x.mag) IN
    IF x.sg = 0 THEN FloatZero
    ELSE [sg |-> x.sg,
          mag |-> IF s >= 0 THEN BigShl(x.mag, s) ELSE BigShr(x.mag, -s),
          ex |-> x.ex - s]

\* round to nearest, ties to even, keeping SignificandBits bits
RoundNearestEven(x) ==
    LET s == BigBits(x.mag) - SignificandBits IN
    IF s <= 0 THEN Normalized(x)
    ELSE LET q == BigShr(x.mag, s)
             c == BigCmp(BigSub(x.mag, BigShl(q, s)), BigShl(<<1>>, s - 1))
         IN Normalized([sg |-> x.sg,
                        mag |-> IF c > 0 \/ (c = 0 /\ BigOdd(q))
                                THEN BigAdd(q, <<1>>) ELSE q,
                        ex |-> x.ex + s])

\* the float nearest to n / d, which is what a decimal literal denotes:
\* GuardBits bits of the quotient and one sticky bit for the remainder
FloatOfRatio(n, d) ==
    IF n = 0 THEN FloatZero
    ELSE LET a == BigShl(BigOfNat(Abs(n)), GuardBits)
             q == BigDivSmall(a, d)
             sticky == IF BigModSmall(a, d) = 0 THEN <<>> ELSE <<1>>
         IN RoundNearestEven([sg |-> Sign(n),
                              mag |-> BigAdd(BigMulSmall(q, 2), sticky),
                              ex |-> -(GuardBits + 1)])

\* x - y, x * y, abs(x) and the order of two floats (-1, 0, 1)
float_sub(x, y) == RoundNearestEven(DySub(x, y))
float_mul(x, y) == RoundNearestEven(DyMul(x, y))
float_abs(x) == DyAbs(x)
float_cmp(x, y) ==
    IF x.sg # y.sg THEN Sign(x.sg - y.sg)
    ELSE IF x.ex # y.ex THEN x.sg * Sign(x.ex - y.ex)
    ELSE x.sg * BigCmp(x.mag, y.mag)

(***************************************************************************)
(* The floats of the prices and thresholds, and the comparisons the source *)
(* makes on them.  The outcomes for the small prices and the usual         *)
(* thresholds are tabulated once; every other one is computed where it is  *)
(* needed, by the same operators.                                          *)
(***************************************************************************)
\* float(P / PriceScale) and float(T / ThresholdScale)
price_float(P) == FloatOfRatio(P, PriceScale)
threshold_float(T) == FloatOfRatio(T, ThresholdScale)

\* prices[x] - prices[y] for the prices P and Q
price_difference(P, Q) == float_sub(price_float(P), price_float(Q))
\* price_thresholds[k] * prices[x] for the threshold T and the price P
threshold_product(T, P) == float_mul(threshold_float(T), price_float(P))

\* how P - Q and abs(P - Q) compare with T * R: -1 below, 0 equal, 1 above
compare_change(P, Q, T, R) ==
    float_cmp(price_difference(P, Q), threshold_product(T, R))
compare_abs_change(P, Q, T, R) ==
    float_cmp(float_abs(price_difference(P, Q)), threshold_product(T, R))

TabulatedPrices == -3..4
TabulatedThresholds == {5, 250, 500, 750}
LowestTabulated == CHOOSE m \in TabulatedPrices : \A v \in TabulatedPrices : m <= v
PriceSlot(P) == P - LowestTabulated + 1
PriceOfSlot(k) == k + LowestTabulated - 1
PriceSlots == 1..Cardinality(TabulatedPrices)
Tabulated(P, Q, T, R) ==
    /\ T \in TabulatedThresholds
    /\ P \in TabulatedPrices /\ Q \in TabulatedPrices /\ R \in TabulatedPrices

PriceTable == [k \in PriceSlots |-> price_float(PriceOfSlot(k))] \o <<>>
DifferenceTable ==
    [k \in PriceSlots |->
        [l \in PriceSlots |-> float_sub(PriceTable[k], PriceTable[l])] \o <<>>] \o <<>>
ProductTable ==
    [t \in 1..(ThresholdScale + 1) |->
        IF t - 1 \in TabulatedThresholds
        THEN [r \in PriceSlots |-> float_mul(threshold_float(t - 1), PriceTable[r])] \o <<>>
        ELSE <<>>] \o <<>>
ChangeTable ==
    [t \in 1..(ThresholdScale + 1) |->
        IF t - 1 \in TabulatedThresholds
        THEN [r \in PriceSlots |-> [k \in PriceSlots |-> [l \in PriceSlots |->
                 float_cmp(DifferenceTable[k][l], ProductTable[t][r])]
                 \o <<>>] \o <<>>] \o <<>>
        ELSE <<>>] \o <<>>
AbsChangeTable ==
    [t \in 1..(ThresholdScale + 1) |->
        IF t - 1 \in TabulatedThresholds
        THEN [r \in PriceSlots |-> [k \in PriceSlots |-> [l \in PriceSlots |->
                 float_cmp(float_abs(DifferenceTable[k][l]), ProductTable[t][r])]
                 \o <<>>] \o <<>>] \o <<>>
        ELSE <<>>] \o <<>>

\* the sign of (prices[x] - prices[y]) - price_thresholds[k] * prices[z]
change_against(P, Q, T, R) ==
    IF Tabulated(P, Q, T, R)
    THEN ChangeTable[T + 1][PriceSlot(R)][PriceSlot(P)][PriceSlot(Q)]
    ELSE compare_change(P, Q, T, R)
\* the sign of abs(prices[x] - prices[y]) - price_thresholds[k] * prices[z]
abs_change_against(P, Q, T, R) ==
    IF Tabulated(P, Q, T, R)
    THEN AbsChangeTable[T + 1][PriceSlot(R)][PriceSlot(P)][PriceSlot(Q)]
    ELSE compare_abs_change(P, Q, T, R)

\* the same two signs with the difference and the product of the floats
\* taken exactly, not rounded
exact_compare_change(P, Q, T, R) ==
    DyCmp(DySub(price_float(P), price_float(Q)),
          DyMul(threshold_float(T), price_float(R)))
exact_compare_abs_change(P, Q, T, R) ==
    DyCmp(DyAbs(DySub(price_float(P), price_float(Q))),
          DyMul(threshold_float(T), price_float(R)))
ExactDifferenceTable ==
    [k \in PriceSlots |->
        [l \in PriceSlots |-> DySub(PriceTable[k], PriceTable[l])] \o <<>>] \o <<>>
ExactProductTable ==
    [t \in 1..(ThresholdScale + 1) |->
        IF t - 1 \in TabulatedThresholds
        THEN [r \in PriceSlots |-> DyMul(threshold_float(t - 1), PriceTable[r])] \o <<>>
        ELSE <<>>] \o <<>>
ExactChangeTable ==
    [t \in 1..(ThresholdScale + 1) |->
        IF t - 1 \in TabulatedThresholds
        THEN [r \in PriceSlots |-> [k \in PriceSlots |-> [l \in PriceSlots |->
                 DyCmp(ExactDifferenceTable[k][l], ExactProductTable[t][r])]
                 \o <<>>] \o <<>>] \o <<>>
        ELSE <<>>] \o <<>>
ExactAbsChangeTable ==
    [t \in 1..(ThresholdScale + 1) |->
        IF t - 1 \in TabulatedThresholds
        THEN [r \in PriceSlots |-> [k \in PriceSlots |-> [l \in PriceSlots |->
                 DyCmp(DyAbs(ExactDifferenceTable[k][l]), ExactProductTable[t][r])]
                 \o <<>>] \o <<>>] \o <<>>
        ELSE <<>>] \o <<>>
exact_change_against(P, Q, T, R) ==
    IF Tabulated(P, Q, T, R)
    THEN ExactChangeTable[T + 1][PriceSlot(R)][PriceSlot(P)][PriceSlot(Q)]
    ELSE exact_compare_change(P, Q, T, R)
exact_abs_change_against(P, Q, T, R) ==
    IF Tabulated(P, Q, T, R)
    THEN ExactAbsChangeTable[T + 1][PriceSlot(R)][PriceSlot(P)][PriceSlot(Q)]
    ELSE exact_compare_abs_change(P, Q, T, R)

\* the sign of ThresholdScale * (P - Q) - T * R: how the change compares with
\* the fraction of the anchor when both are taken as the decimals written
decimal_change_against(P, Q, T, R) == Sign(ThresholdScale * (P - Q) - T * R)
decimal_abs_change_against(P, Q, T, R) ==
    Sign(ThresholdScale * Abs(P - Q) - T * R)

(***************************************************************************)
(* Local extrema detection.  The windows compare prices by their           *)
(* numerators: float(P / PriceScale) is strictly increasing in P over the  *)
(* prices of the model, so the order of the floats is that of the          *)
(* numerators.                                                             *)
(***************************************************************************)
left_window(i, p, w) == Slice(p, Max2(0, i - w), i)
right_window(i, p, w) == Slice(p, i + 1, Min2(i + w + 1, Len(p)))

\* min() of an empty window raises ValueError; `and` short-circuits, so the
\* right window is only looked at when the left comparison is true.
is_local_minima_raises(i, p, w) ==
    \/ left_window(i, p, w) = <<>>
    \/ /\ At(p, i) < MinOf(left_window(i, p, w))
       /\ right_window(i, p, w) = <<>>

\* mutant: the minimum test compares the way the maximum test does
is_local_minima_as_maxima(i, p, w) ==
    /\ At(p, i) > MaxOf(left_window(i, p, w))
    /\ At(p, i) > MaxOf(right_window(i, p, w))

is_local_minima(i, p, w) ==
    /\ At(p, i) < MinOf(left_window(i, p, w))
    /\ At(p, i) < MinOf(right_window(i, p, w))

is_local_maxima_raises(i, p, w) ==
    \/ left_window(i, p, w) = <<>>
    \/ /\ At(p, i) > MaxOf(left_window(i, p, w))
       /\ right_window(i, p, w) = <<>>

\* mutant: a tie with the right window still counts as a maximum
is_local_maxima_ties(i, p, w) ==
    /\ At(p, i) > MaxOf(left_window(i, p, w))
    /\ At(p, i) >= MaxOf(right_window(i, p, w))

is_local_maxima(i, p, w) ==
    /\ At(p, i) > MaxOf(left_window(i, p, w))
    /\ At(p, i) > MaxOf(right_window(i, p, w))

\* mutant: the loop runs to the end of the series
scan_range_to_end(p, w) == RangeSeq(w, Len(p))

\* mutant: the loop runs over the whole series
scan_range_no_margin(p, w) == RangeSeq(0, Len(p))

\* the indices the loop of get_min_max_indices visits
scan_range(p, w) == RangeSeq(w, Len(p) - w)

get_min_max_indices_raises(p, w) ==
    \E k \in 1..Len(scan_range(p, w)) :
        \/ is_local_maxima_raises(scan_range(p, w)[k], p, w)
        \/ is_local_minima_raises(scan_range(p, w)[k], p, w)

get_maxima(p, w) == SelectSeq(scan_range(p, w), LAMBDA i : is_local_maxima(i, p, w))
get_minima(p, w) == SelectSeq(scan_range(p, w), LAMBDA i : is_local_minima(i, p, w))

(***************************************************************************)
(* Validation helpers.                                                     *)
(***************************************************************************)
\* mutant: the gap has to exceed the threshold
distance_is_valid_strict(a, b, dt, pair_name) ==
    IF pair_name \in DOMAIN dt
    THEN Abs(a - b) > dt[pair_name]
    ELSE FALSE

distance_is_valid(a, b, dt, pair_name) ==
    IF pair_name \in DOMAIN dt
    THEN Abs(a - b) >= dt[pair_name]
    ELSE FALSE

\* the threshold keys one call of price_difference_is_valid looks up
price_keys_read(a, b, c, d, e) ==
    (IF a # None /\ b # None THEN {"a_b"} ELSE {})
    \cup (IF b # None /\ c # None THEN {"b_c"} ELSE {})
    \cup (IF a # None /\ c # None THEN {"a_c"} ELSE {})
    \cup (IF c # None /\ d # None THEN {"c_d"} ELSE {})
    \cup (IF b # None /\ d # None THEN {"b_d"} ELSE {})
    \cup (IF d # None /\ e # None THEN {"d_e"} ELSE {})

\* a key that is read and absent raises KeyError
price_difference_raises(a, b, c, d, e, pt) ==
    \E k \in price_keys_read(a, b, c, d, e) : k \notin DOMAIN pt

\* mutant: the rise from d to e is rejected when it reaches its threshold
price_difference_is_valid_reversed(a, b, c, d, e, p, pt) ==
    /\ ~ (a # None /\ b # None
          /\ change_against(At(p, a), At(p, b), pt["a_b"], At(p, a)) <= 0)
    /\ ~ (b # None /\ c # None
          /\ change_against(At(p, c), At(p, b), pt["b_c"], At(p, b)) <= 0)
    /\ ~ (a # None /\ c # None
          /\ abs_change_against(At(p, c), At(p, a), pt["a_c"], At(p, a)) >= 0)
    /\ ~ (c # None /\ d # None
          /\ change_against(At(p, c), At(p, d), pt["c_d"], At(p, c)) <= 0)
    /\ ~ (b # None /\ d # None
          /\ change_against(At(p, d), At(p, b), pt["b_d"], At(p, b)) <= 0)
    /\ ~ (d # None /\ e # None
          /\ change_against(At(p, e), At(p, d), pt["d_e"], At(p, d)) >= 0)

\* mutant: an a-to-c change equal to its fraction of the anchor passes
price_difference_is_valid_zero_anchor(a, b, c, d, e, p, pt) ==
    /\ ~ (a # None /\ b # None
          /\ change_against(At(p, a), At(p, b), pt["a_b"], At(p, a)) <= 0)
    /\ ~ (b # None /\ c # None
          /\ change_against(At(p, c), At(p, b), pt["b_c"], At(p, b)) <= 0)
    /\ ~ (a # None /\ c # None
          /\ abs_change_against(At(p, c), At(p, a), pt["a_c"], At(p, a)) > 0)
    /\ ~ (c # None /\ d # None
          /\ change_against(At(p, c), At(p, d), pt["c_d"], At(p, c)) <= 0)
    /\ ~ (b # None /\ d # None
          /\ change_against(At(p, d), At(p, b), pt["b_d"], At(p, b)) <= 0)
    /\ ~ (d # None /\ e # None
          /\ change_against(At(p, e), At(p, d), pt["d_e"], At(p, d)) <= 0)

\* mutant: a fall from a to b that equals its fraction of the anchor passes
price_difference_is_valid_boundary(a, b, c, d, e, p, pt) ==
    /\ ~ (a # None /\ b # None
          /\ change_against(At(p, a), At(p, b), pt["a_b"], At(p, a)) < 0)
    /\ ~ (b # None /\ c # None
          /\ change_against(At(p, c), At(p, b), pt["b_c"], At(p, b)) <= 0)
    /\ ~ (a # None /\ c # None
          /\ abs_change_against(At(p, c), At(p, a), pt["a_c"], At(p, a)) >= 0)
    /\ ~ (c # None /\ d # None
          /\ change_against(At(p, c), At(p, d), pt["c_d"], At(p, c)) <= 0)
    /\ ~ (b # None /\ d # None
          /\ change_against(At(p, d), At(p, b), pt["b_d"], At(p, b)) <= 0)
    /\ ~ (d # None /\ e # None
          /\ change_against(At(p, e), At(p, d), pt["d_e"], At(p, d)) <= 0)

price_difference_is_valid(a, b, c, d, e, p, pt) ==
    /\ ~ (a # None /\ b # None
          /\ change_against(At(p, a), At(p, b), pt["a_b"], At(p, a)) <= 0)
    /\ ~ (b # None /\ c # None
          /\ change_against(At(p, c), At(p, b), pt["b_c"], At(p, b)) <= 0)
    /\ ~ (a # None /\ c # None
          /\ abs_change_against(At(p, c), At(p, a), pt["a_c"], At(p, a)) >= 0)
    /\ ~ (c # None /\ d # None
          /\ change_against(At(p, c), At(p, d), pt["c_d"], At(p, c)) <= 0)
    /\ ~ (b # None /\ d # None
          /\ change_against(At(p, d), At(p, b), pt["b_d"], At(p, b)) <= 0)
    /\ ~ (d # None /\ e # None
          /\ change_against(At(p, e), At(p, d), pt["d_e"], At(p, d)) <= 0)

(***************************************************************************)
(* The nested search of find_cup_and_handle_pattern.  mx and mn are the    *)
(* maxima and minima lists; every loop walks its list in list order and    *)
(* appends in that order.                                                  *)
(***************************************************************************)
\* mutant: every maximum is a candidate a
outer_candidates_all(mx) == mx

\* maxima[i] for i in range(len(maxima) - 4)
outer_candidates(mx) == SubSeq(mx, 1, Len(mx) - PreFilter)

loop_e(a, b, c, d, p, mx, pt, dt) ==
    Flatten([k \in 1..Len(mx) |->
        LET e == mx[k] IN
        IF e > d /\ distance_is_valid(d, e, dt, "d_e")
        THEN IF price_difference_is_valid(a, b, c, d, e, p, pt)
             THEN << <<a, b, c, d, e>> >>
             ELSE <<>>
        ELSE <<>>])

loop_d(a, b, c, p, mx, mn, pt, dt) ==
    Flatten([k \in 1..Len(mn) |->
        LET d == mn[k] IN
        IF d > c /\ distance_is_valid(c, d, dt, "c_d")
        THEN IF ~ price_difference_is_valid(a, b, c, d, None, p, pt)
             THEN <<>>
             ELSE loop_e(a, b, c, d, p, mx, pt, dt)
        ELSE <<>>])

loop_c(a, b, p, mx, mn, pt, dt) ==
    Flatten([k \in 1..Len(mx) |->
        LET c == mx[k] IN
        IF c > b /\ distance_is_valid(b, c, dt, "b_c")
        THEN IF ~ price_difference_is_valid(a, b, c, None, None, p, pt)
             THEN <<>>
             ELSE loop_d(a, b, c, p, mx, mn, pt, dt)
        ELSE <<>>])

\* mutant: the partial check on (a, b) is applied without its negation
loop_b_inverted(a, p, mx, mn, pt, dt) ==
    Flatten([k \in 1..Len(mn) |->
        LET b == mn[k] IN
        IF b > a /\ distance_is_valid(a, b, dt, "a_b")
        THEN IF price_difference_is_valid(a, b, None, None, None, p, pt)
             THEN <<>>
             ELSE loop_c(a, b, p, mx, mn, pt, dt)
        ELSE <<>>])

loop_b(a, p, mx, mn, pt, dt) ==
    Flatten([k \in 1..Len(mn) |->
        LET b == mn[k] IN
        IF b > a /\ distance_is_valid(a, b, dt, "a_b")
        THEN IF ~ price_difference_is_valid(a, b, None, None, None, p, pt)
             THEN <<>>
             ELSE loop_c(a, b, p, mx, mn, pt, dt)
        ELSE <<>>])

\* mutant: the outer loop walks its candidates from the last to the first
search_patterns_descending(p, mx, mn, pt, dt) ==
    Flatten([i \in 1..Len(outer_candidates(mx)) |->
        loop_b(outer_candidates(mx)[Len(outer_candidates(mx)) + 1 - i],
               p, mx, mn, pt, dt)])

\* the list the loops build when no lookup raises
search_patterns(p, mx, mn, pt, dt) ==
    Flatten([i \in 1..Len(outer_candidates(mx)) |->
        loop_b(outer_candidates(mx)[i], p, mx, mn, pt, dt)])

\* some call of price_difference_is_valid that the loops reach raises KeyError
raises_e(a, b, c, d, mx, pt, dt) ==
    \E k \in 1..Len(mx) :
        /\ mx[k] > d /\ distance_is_valid(d, mx[k], dt, "d_e")
        /\ price_difference_raises(a, b, c, d, mx[k], pt)

raises_d(a, b, c, p, mx, mn, pt, dt) ==
    \E k \in 1..Len(mn) :
        /\ mn[k] > c /\ distance_is_valid(c, mn[k], dt, "c_d")
        /\ \/ price_difference_raises(a, b, c, mn[k], None, pt)
           \/ /\ price_difference_is_valid(a, b, c, mn[k], None, p, pt)
              /\ raises_e(a, b, c, mn[k], mx, pt, dt)

raises_c(a, b, p, mx, mn, pt, dt) ==
    \E k \in 1..Len(mx) :
        /\ mx[k] > b /\ distance_is_valid(b, mx[k], dt, "b_c")
        /\ \/ price_difference_raises(a, b, mx[k], None, None, pt)
           \/ /\ price_difference_is_valid(a, b, mx[k], None, None, p, pt)
              /\ raises_d(a, b, mx[k], p, mx, mn, pt, dt)

raises_b(a, p, mx, mn, pt, dt) ==
    \E k \in 1..Len(mn) :
        /\ mn[k] > a /\ distance_is_valid(a, mn[k], dt, "a_b")
        /\ \/ price_difference_raises(a, mn[k], None, None, None, pt)
           \/ /\ price_difference_is_valid(a, mn[k], None, None, None, p, pt)
              /\ raises_c(a, mn[k], p, mx, mn, pt, dt)

search_raises(p, mx, mn, pt, dt) ==
    \E i \in 1..Len(outer_candidates(mx)) :
        raises_b(outer_candidates(mx)[i], p, mx, mn, pt, dt)

\* some call of distance_is_valid that the loops reach finds its key absent
\* and answers False
skips_d(a, b, c, p, mx, mn, pt, dt) ==
    \E k \in 1..Len(mn) :
        /\ mn[k] > c
        /\ \/ "c_d" \notin DOMAIN dt
           \/ /\ distance_is_valid(c, mn[k], dt, "c_d")
              /\ ~ price_difference_raises(a, b, c, mn[k], None, pt)
              /\ price_difference_is_valid(a, b, c, mn[k], None, p, pt)
              /\ \E j \in 1..Len(mx) : mx[j] > mn[k] /\ "d_e" \notin DOMAIN dt

skips_c(a, b, p, mx, mn, pt, dt) ==
    \E k \in 1..Len(mx) :
        /\ mx[k] > b
        /\ \/ "b_c" \notin DOMAIN dt
           \/ /\ distance_is_valid(b, mx[k], dt, "b_c")
              /\ ~ price_difference_raises(a, b, mx[k], None, None, pt)
              /\ price_difference_is_valid(a, b, mx[k], None, None, p, pt)
              /\ skips_d(a, b, mx[k], p, mx, mn, pt, dt)

skips_b(a, p, mx, mn, pt, dt) ==
    \E k \in 1..Len(mn) :
        /\ mn[k] > a
        /\ \/ "a_b" \notin DOMAIN dt
           \/ /\ distance_is_valid(a, mn[k], dt, "a_b")
              /\ ~ price_difference_raises(a, mn[k], None, None, None, pt)
              /\ price_difference_is_valid(a, mn[k], None, None, None, p, pt)
              /\ skips_c(a, mn[k], p, mx, mn, pt, dt)

search_skips(p, mx, mn, pt, dt) ==
    \E i \in 1..Len(outer_candidates(mx)) :
        skips_b(outer_candidates(mx)[i], p, mx, mn, pt, dt)

(***************************************************************************)
(* Inputs.                                                                 *)
(***************************************************************************)
Seqs(S, n) == UNION {[1..m -> S] : m \in 0..n}

\* every series of at most MaxLen prices in 0..MaxPrice
ShortSeries == Seqs(0..MaxPrice, MaxLen)

\* constant series, long enough for the default window to have eligible indices
ConstantSeries ==
    {[j \in 1..n |-> v] : n \in 0..(2 * DefaultWindow + 2), v \in 0..MaxPrice}

\* n peaks at the odd indices, troughs at the even ones.  The two end troughs
\* stand at the lowest trough price, the inner troughs take the trough prices
\* of lo (the troughs past the last of lo repeat it), and the peaks stand at
\* the lower peak price except at most one (the peak numbered up) that stands
\* at the higher.  The whole series is lowered by off, which puts anchors at
\* price 0 and below.
TroughPrices == {0, 1, 2}
PeakPrice(raised) == IF raised THEN 4 ELSE 3
Offsets == {0, 3}
PeakCounts == (PreFilter - 1)..(PreFilter + 1 + ExtraPeaks)
Zigzag(n, lo, up, off) ==
    [j \in 1..(2 * n + 1) |->
        (IF j % 2 = 0
         THEN PeakPrice(j \div 2 = up)
         ELSE IF j = 1 \/ j = 2 * n + 1 THEN 0
         ELSE lo[Min2((j - 1) \div 2, Len(lo))]) - off]
ZigzagSeries(offs) ==
    UNION {{Zigzag(n, lo, up, off) : lo \in [1..Min2(n - 1, PreFilter) -> TroughPrices],
                                     up \in 0..n, off \in offs} : n \in PeakCounts}

\* the series the varied thresholds are tried on: as many peaks as the search
\* needs, nothing lowered
VariedSeries ==
    {Zigzag(PreFilter + 1, lo, up, 0) : lo \in [1..PreFilter -> TroughPrices],
                                        up \in 0..(PreFilter + 1)}

\* six peaks, so that the search has two candidates for a: the first two
\* inner troughs take any trough price and so do the last three, all alike
SixPeakSeries ==
    {Zigzag(PreFilter + 2, lo, up, 0) : lo \in [1..3 -> TroughPrices],
                                        up \in 0..(PreFilter + 2)}

\* five peaks at the higher peak price with inner troughs of 1, 2 or 3: the
\* falls of 4 to 3 and of 4 to 2 sit on the thresholds 0.25 and 0.5 as
\* decimals; as floats the first clears 0.25 * 0.04 and the second equals
\* 0.5 * 0.04
PlateauTroughs == {1, 2, 3}
Plateau(peak, lo) ==
    [j \in 1..(2 * PreFilter + 3) |->
        IF j % 2 = 0 THEN peak
        ELSE IF j = 1 \/ j = 2 * PreFilter + 3 THEN 0 ELSE lo[(j - 1) \div 2]]
PlateauSeries ==
    {Plateau(PeakPrice(TRUE), lo) : lo \in [1..PreFilter -> PlateauTroughs]}

\* five peaks of 0.30 with inner troughs of 0.05 or 0.10: the fall of 0.3 to
\* 0.05 is a float difference that rounds up to 0.25, a power of two, so
\* the rounding carries into the exponent
CarryPeak == 30
CarryTroughs == {5, 10}
CarrySeries == {Plateau(CarryPeak, lo) : lo \in [1..PreFilter -> CarryTroughs]}

\* a rise-fall-rise-fall-rise series long enough for the default window and
\* distances: peaks of 200 at 5, 25 and 45, troughs of 180 at 15 and 190 at
\* 35, then small peaks every 6 samples
HandBuiltSeries ==
    [j \in 1..(12 * DefaultWindow + 3) |->
        LET i == j - 1 IN
        CASE i <= 5 -> 190 + 2 * i
          [] i > 5 /\ i <= 15 -> 200 - 2 * (i - 5)
          [] i > 15 /\ i <= 25 -> 180 + 2 * (i - 15)
          [] i > 25 /\ i <= 35 -> 200 - (i - 25)
          [] i > 35 /\ i <= 45 -> 190 + (i - 35)
          [] OTHER -> 200 - Min2((i - 45) % 6, 6 - ((i - 45) % 6))]

BaseDistanceThresholds == [k \in DistanceKeys |-> 1]
BasePriceThresholds == [k \in PriceKeys |-> 250]
Without(f, k) == [x \in (DOMAIN f) \ {k} |-> f[x]]

\* the base thresholds, or the base thresholds with one key raised or absent
DistanceConfigs ==
    {BaseDistanceThresholds}
    \cup {[BaseDistanceThresholds EXCEPT ![k] = 3] : k \in DistanceKeys}
    \cup {Without(BaseDistanceThresholds, k) : k \in DistanceKeys}
PriceConfigs ==
    {BasePriceThresholds}
    \cup {[BasePriceThresholds EXCEPT ![k] = 500] : k \in PriceKeys}
    \cup {Without(BasePriceThresholds, k) : k \in PriceKeys}

BaseConfig == <<BaseDistanceThresholds, BasePriceThresholds>>
VariedConfigs ==
    (({BaseDistanceThresholds} \X PriceConfigs)
     \cup (DistanceConfigs \X {BasePriceThresholds})) \ {BaseConfig}

\* first is the empty list until a call has been repeated, then the list of
\* the one outcome of the first call
NoResult == <<>>
Start(e, p, w, pt, dt, n) ==
    /\ entry = e
    /\ prices = p
    /\ window_size = w
    /\ price_thresholds = pt
    /\ distance_thresholds = dt
    /\ pc = "start"
    /\ maxima = <<>>
    /\ minima = <<>>
    /\ valid_patterns = <<>>
    /\ exc = "none"
    /\ detected = FALSE
    /\ passed = [price_thresholds |-> pt, distance_thresholds |-> dt]
    /\ calls_left = n
    /\ first = NoResult

\* find_cup_and_handle_pattern(prices, window_size, price_thresholds,
\* distance_thresholds), called n + 1 times
InitFind(S, W, C, n) ==
    \E p \in S, w \in W, cfg \in C :
        Start("find", p, w, cfg[2], cfg[1], n)

\* detect_cup_and_handle(prices), called n + 1 times
InitDetect(S, n) ==
    \E p \in S : Start("detect", p, DefaultWindow, NoneCfg, NoneCfg, n)

\* every short and constant series under every window with the base thresholds;
\* the zigzag series under every window >= 1 with the base thresholds; the
\* five-peak zigzag series under window 1 with one threshold raised or absent;
\* the plateau series under window 1 with one price threshold raised or absent;
\* the carry series under window 1 with the base thresholds;
\* and detect_cup_and_handle on all of them and on the hand-built series.
\* The calls on the plateau and six-peak series, and detect_cup_and_handle on
\* the constant, six-peak and hand-built series, are made twice.
Init ==
    \/ InitFind(ShortSeries \cup ConstantSeries, 0..MaxWindow, {BaseConfig}, 0)
    \/ InitFind(ZigzagSeries(Offsets), 1..MaxWindow, {BaseConfig}, 0)
    \/ InitFind(VariedSeries, {1}, VariedConfigs, 0)
    \/ InitFind(PlateauSeries, {1}, {BaseDistanceThresholds} \X PriceConfigs, 1)
    \/ InitFind(SixPeakSeries, {1}, {BaseConfig}, 1)
    \/ InitFind(CarrySeries, {1}, {BaseConfig}, 0)
    \/ InitDetect(ShortSeries \cup ZigzagSeries(Offsets), 0)
    \/ InitDetect(ConstantSeries \cup SixPeakSeries \cup {HandBuiltSeries}, 1)

(***************************************************************************)
(* Steps of a call.                                                        *)
(***************************************************************************)
\* logic.py 133-155: a threshold argument that is None takes the defaults
ApplyDefaults ==
    /\ pc = "start"
    /\ distance_thresholds' =
          IF distance_thresholds = NoneCfg THEN DefaultDistanceThresholds
          ELSE distance_thresholds
    /\ price_thresholds' =
          IF price_thresholds = NoneCfg THEN DefaultPriceThresholds
          ELSE price_thresholds
    /\ pc' = "extrema"
    /\ UNCHANGED <<entry, prices, window_size, maxima, minima, valid_patterns,
                   exc, detected, passed, calls_left, first>>

\* logic.py 158: maxima, minima = get_min_max_indices(prices, window_size)
GetMinMaxIndices ==
    /\ pc = "extrema"
    /\ IF get_min_max_indices_raises(prices, window_size)
       THEN /\ exc' = "ValueError"
            /\ pc' = "raised"
            /\ UNCHANGED <<maxima, minima>>
       ELSE /\ maxima' = get_maxima(prices, window_size)
            /\ minima' = get_minima(prices, window_size)
            /\ pc' = "search"
            /\ UNCHANGED exc
    /\ UNCHANGED <<entry, prices, window_size, price_thresholds,
                   distance_thresholds, valid_patterns, detected,
                   passed, calls_left, first>>

\* logic.py 161-192: the nested loops, which append to the list that line 130
\* made empty, and the return
SearchPatterns ==
    /\ pc = "search"
    /\ IF search_raises(prices, maxima, minima, price_thresholds, distance_thresholds)
       THEN /\ exc' = "KeyError"
            /\ pc' = "raised"
            /\ UNCHANGED valid_patterns
       ELSE /\ valid_patterns' =
                  valid_patterns \o search_patterns(prices, maxima, minima,
                                       price_thresholds, distance_thresholds)
            /\ pc' = IF entry = "detect" THEN "summary" ELSE "done"
            /\ UNCHANGED exc
    /\ UNCHANGED <<entry, prices, window_size, price_thresholds,
                   distance_thresholds, maxima, minima, detected,
                   passed, calls_left, first>>

has_pattern(vp) == Len(vp) > 0

\* logic.py 202-203: return len(valid_patterns) > 0
DetectCupAndHandle ==
    /\ pc = "summary"
    /\ detected' = has_pattern(valid_patterns)
    /\ pc' = "done"
    /\ UNCHANGED <<entry, prices, window_size, price_thresholds,
                   distance_thresholds, maxima, minima, valid_patterns, exc,
                   passed, calls_left, first>>

\* what a finished call hands to its caller: the list, or the exception that
\* ended it, and the boolean of detect_cup_and_handle
Outcome == [patterns |-> valid_patterns, exc |-> exc, detected |-> detected]
CallEnded == pc \in {"done", "raised"}

\* the caller makes the same call again: the price list and the window are
\* the objects of the first call, which the function has not written to; the
\* thresholds are the arguments as first passed; the locals of the new call
\* are fresh (logic.py 130: valid_patterns = [])
CallAgain ==
    /\ CallEnded
    /\ calls_left > 0
    /\ calls_left' = calls_left - 1
    /\ first' = IF first = NoResult THEN <<Outcome>> ELSE first
    /\ price_thresholds' = passed.price_thresholds
    /\ distance_thresholds' = passed.distance_thresholds
    /\ pc' = "start"
    /\ maxima' = <<>>
    /\ minima' = <<>>
    /\ valid_patterns' = <<>>
    /\ exc' = "none"
    /\ detected' = FALSE
    /\ UNCHANGED <<entry, prices, window_size, passed>>

Next ==
    \/ ApplyDefaults
    \/ GetMinMaxIndices
    \/ SearchPatterns
    \/ DetectCupAndHandle
    \/ CallAgain

Spec == Init /\ [][Next]_vars

(***************************************************************************)
(* The specification's PatternMatch (spec sections 3 and 4.2), stated      *)
(* directly on a quintuple rather than through the loops.                  *)
(***************************************************************************)
\* the quintuples (a, b, c, d, e) with a < b < c < d < e, a, c, e among mx and
\* b, d among mn
After(s, x) == {y \in SeqRange(s) : y > x}
Quintuples(mx, mn) ==
    UNION {UNION {UNION {UNION {{<<a, b, c, d, e>> : e \in After(mx, d)}
                                : d \in After(mn, c)}
                         : c \in After(mx, b)}
                  : b \in After(mn, a)}
           : a \in SeqRange(mx)}

CompleteConfig(pt, dt) == DOMAIN pt = PriceKeys /\ DOMAIN dt = DistanceKeys

Ordered(q) == q[1] < q[2] /\ q[2] < q[3] /\ q[3] < q[4] /\ q[4] < q[5]

DrawnFromExtrema(q, mx, mn) ==
    /\ q[1] \in SeqRange(mx) /\ q[3] \in SeqRange(mx) /\ q[5] \in SeqRange(mx)
    /\ q[2] \in SeqRange(mn) /\ q[4] \in SeqRange(mn)

DistancesHold(q, dt) ==
    /\ q[2] - q[1] >= dt["a_b"]
    /\ q[3] - q[2] >= dt["b_c"]
    /\ q[4] - q[3] >= dt["c_d"]
    /\ q[5] - q[4] >= dt["d_e"]

\* the points whose price change a threshold key speaks of (from, to), and
\* the point whose price the threshold is a fraction of
ChangeFrom(k, q) ==
    CASE k \in {"a_b", "a_c"} -> q[1]
      [] k \in {"b_c", "b_d"} -> q[2]
      [] k = "c_d" -> q[3]
      [] k = "d_e" -> q[4]
ChangeTo(k, q) ==
    CASE k = "a_b" -> q[2]
      [] k \in {"b_c", "a_c"} -> q[3]
      [] k \in {"c_d", "b_d"} -> q[4]
      [] k = "d_e" -> q[5]
Anchor(k, q, p) == At(p, ChangeFrom(k, q))
\* -1, 0, 1 as the change of key k stays below, meets or exceeds its fraction
\* of the anchor: a fall for a_b and c_d, a rise for b_c, b_d and d_e, and
\* the absolute change for a_c.  against and abs_against say how a change is
\* compared with the fraction.
ChangeBy(against(_, _, _, _), abs_against(_, _, _, _), k, q, p, pt) ==
    CASE k \in {"a_b", "c_d"} ->
            against(At(p, ChangeFrom(k, q)), At(p, ChangeTo(k, q)),
                    pt[k], Anchor(k, q, p))
      [] k \in {"b_c", "b_d", "d_e"} ->
            against(At(p, ChangeTo(k, q)), At(p, ChangeFrom(k, q)),
                    pt[k], Anchor(k, q, p))
      [] k = "a_c" ->
            abs_against(At(p, ChangeTo(k, q)), At(p, ChangeFrom(k, q)),
                        pt[k], Anchor(k, q, p))
\* as float arithmetic evaluates the two sides
Change(k, q, p, pt) ==
    ChangeBy(change_against, abs_change_against, k, q, p, pt)
\* on the floats of the prices and the threshold, in exact arithmetic
ExactChange(k, q, p, pt) ==
    ChangeBy(exact_change_against, exact_abs_change_against, k, q, p, pt)
\* on the decimals the prices and the threshold are written as
DecimalChange(k, q, p, pt) ==
    ChangeBy(decimal_change_against, decimal_abs_change_against, k, q, p, pt)

\* five changes must exceed their fraction of the anchor, the a-to-c change
\* must stay below its fraction
Holds(k, c) == IF k = "a_c" THEN c < 0 ELSE c > 0
PricesHold(q, p, pt) == \A k \in PriceKeys : Holds(k, Change(k, q, p, pt))
ExactPricesHold(q, p, pt) ==
    \A k \in PriceKeys : Holds(k, ExactChange(k, q, p, pt))

PatternMatch(q, p, mx, mn, pt, dt) ==
    /\ Ordered(q)
    /\ DrawnFromExtrema(q, mx, mn)
    /\ DistancesHold(q, dt)
    /\ PricesHold(q, p, pt)

Returned == SeqRange(valid_patterns)
SearchReturned == pc \in {"summary", "done"}

\* a quintuple that fails only because one price change equals its
\* fraction of the anchor
BoundaryExact(q, p, pt) ==
    \E k \in PriceKeys :
        /\ Change(k, q, p, pt) = 0
        /\ \A j \in PriceKeys \ {k} : Holds(j, Change(j, q, p, pt))

\* a quintuple with a price change that sits on its threshold as the decimals
\* are written and clears it as the floats are compared
ClearsByRounding(q, p, pt) ==
    \E k \in PriceKeys :
        /\ DecimalChange(k, q, p, pt) = 0
        /\ Holds(k, Change(k, q, p, pt))

(***************************************************************************)
(* C1 -- soundness of the search: every quintuple returned by              *)
(* find_cup_and_handle_pattern is a PatternMatch: a<b<c<d<e, a, c, e are   *)
(* maxima and b, d minima of the same prices and window, the four gaps     *)
(* reach their distance thresholds, and the six price inequalities hold    *)
(* strictly, both as float arithmetic evaluates them and in exact          *)
(* arithmetic on the floats of the prices and thresholds.                  *)
(***************************************************************************)
C1_Soundness ==
    SearchReturned =>
        \A k \in 1..Len(valid_patterns) :
            /\ CompleteConfig(price_thresholds, distance_thresholds)
            /\ maxima = get_maxima(prices, window_size)
            /\ minima = get_minima(prices, window_size)
            /\ PatternMatch(valid_patterns[k], prices, maxima, minima,
                            price_thresholds, distance_thresholds)
            /\ ExactPricesHold(valid_patterns[k], prices, price_thresholds)

\* a match whose fall or rise clears its threshold only as the floats are
\* compared is returned, while a candidate from the same a whose change
\* equals its fraction of the anchor is left out
C1_Witness ==
    /\ SearchReturned
    /\ valid_patterns # <<>>
    /\ ClearsByRounding(valid_patterns[1], prices, price_thresholds)
    /\ \E q \in Quintuples(maxima, minima) :
          /\ q[1] = valid_patterns[1][1]
          /\ Ordered(q)
          /\ DistancesHold(q, distance_thresholds)
          /\ BoundaryExact(q, prices, price_thresholds)
          /\ q \notin Returned

(***************************************************************************)
(* C2 -- completeness of the search.  As claimed: every quintuple that is  *)
(* a PatternMatch appears in the returned list.                            *)
(***************************************************************************)
C2_AllMatchesReturned ==
    (SearchReturned /\ CompleteConfig(price_thresholds, distance_thresholds)) =>
        \A q \in Quintuples(maxima, minima) :
            PatternMatch(q, prices, maxima, minima, price_thresholds, distance_thresholds)
                => q \in Returned

(***************************************************************************)
(* C2 as amended -- every PatternMatch whose a is not one of the last      *)
(* four maxima appears in the returned list.                               *)
(***************************************************************************)
NotAmongLastFour(a, mx) == \E i \in 1..(Len(mx) - PreFilter) : mx[i] = a

C2_MatchesPastPreFilterReturned ==
    (SearchReturned /\ CompleteConfig(price_thresholds, distance_thresholds)) =>
        \A q \in Quintuples(maxima, minima) :
            (/\ PatternMatch(q, prices, maxima, minima, price_thresholds, distance_thresholds)
             /\ NotAmongLastFour(q[1], maxima))
                => q \in Returned

\* a match is returned whose gaps sit exactly on raised distance thresholds
C2_Witness ==
    /\ SearchReturned
    /\ CompleteConfig(price_thresholds, distance_thresholds)
    /\ \E q \in Returned, k \in DistanceKeys :
          /\ distance_thresholds[k] > 1
          /\ q[2] - q[1] = distance_thresholds["a_b"]
          /\ q[5] - q[4] = distance_thresholds["d_e"]

(***************************************************************************)
(* C9 -- pre-filter on a: candidate a is taken from the maxima list with   *)
(* its last four entries left out, in ascending order; with fewer than 5   *)
(* maxima the match list is empty, and no returned quintuple starts at     *)
(* one of the last four maxima.                                            *)
(***************************************************************************)
C9_PreFilter ==
    SearchReturned =>
        /\ \A k \in 1..Len(valid_patterns) :
              NotAmongLastFour(valid_patterns[k][1], maxima)
        /\ \A k \in 1..(Len(valid_patterns) - 1) :
              valid_patterns[k][1] <= valid_patterns[k + 1][1]
        /\ Len(maxima) < PreFilter + 1 => valid_patterns = <<>>

\* fewer than five maxima, a PatternMatch exists, and nothing is returned
C9_Witness ==
    /\ SearchReturned
    /\ CompleteConfig(price_thresholds, distance_thresholds)
    /\ Len(maxima) < PreFilter + 1
    /\ \E q \in Quintuples(maxima, minima) :
          PatternMatch(q, prices, maxima, minima, price_thresholds, distance_thresholds)
    /\ valid_patterns = <<>>

(***************************************************************************)
(* Extrema.                                                                *)
(***************************************************************************)
\* get_min_max_indices has returned
ExtremaExtracted == pc \in {"search", "summary", "done"} \/ exc = "KeyError"

Eligible(p, w) == {i \in 0..(Len(p) - 1) : w <= i /\ i < Len(p) - w}

StrictlyIncreasing(s) == \A k \in 1..(Len(s) - 1) : s[k] < s[k + 1]

IsConstant(p) == \A j, k \in 1..Len(p) : p[j] = p[k]

\* strictly above (dir = 1) or below (dir = -1) every sample of both windows
BeatsBothWindows(i, p, w, dir) ==
    /\ \A j \in (i - w)..(i - 1) : dir * At(p, i) > dir * At(p, j)
    /\ \A j \in (i + 1)..(i + w) : dir * At(p, i) > dir * At(p, j)

(***************************************************************************)
(* C3 -- extrema-set invariant: for windowSize >= 1 the maxima and minima  *)
(* lists are strictly increasing, share no index, hold only indices i      *)
(* with windowSize <= i < N - windowSize, and together hold at most        *)
(* N - 2*windowSize indices when that number is not negative.              *)
(***************************************************************************)
C3_ExtremaSet ==
    (ExtremaExtracted /\ window_size >= 1) =>
        /\ StrictlyIncreasing(maxima)
        /\ StrictlyIncreasing(minima)
        /\ SeqRange(maxima) \cap SeqRange(minima) = {}
        /\ SeqRange(maxima) \cup SeqRange(minima) \subseteq Eligible(prices, window_size)
        /\ Len(prices) - 2 * window_size >= 0
              => Len(maxima) + Len(minima) <= Len(prices) - 2 * window_size

\* every eligible index of a series with several of them is an extremum
C3_Witness ==
    /\ ExtremaExtracted
    /\ window_size >= 1
    /\ Len(maxima) >= 2
    /\ Len(minima) >= 2
    /\ Len(maxima) + Len(minima) = Len(prices) - 2 * window_size

(***************************************************************************)
(* C4 -- extrema classification: for windowSize >= 1 an index is in        *)
(* maxima exactly when it is eligible and its price is strictly greater    *)
(* than every sample of prices[i-w..i) and prices[i+1..i+w+1), and in      *)
(* minima exactly when it is strictly less than every such sample; a       *)
(* constant series has no extrema and detect_cup_and_handle answers false  *)
(* on it.                                                                  *)
(***************************************************************************)
C4_Classification ==
    /\ (ExtremaExtracted /\ window_size >= 1) =>
          /\ \A i \in 0..(Len(prices) - 1) :
                /\ i \in SeqRange(maxima) <=>
                      (i \in Eligible(prices, window_size)
                       /\ BeatsBothWindows(i, prices, window_size, 1))
                /\ i \in SeqRange(minima) <=>
                      (i \in Eligible(prices, window_size)
                       /\ BeatsBothWindows(i, prices, window_size, -1))
          /\ IsConstant(prices) => maxima = <<>> /\ minima = <<>>
    /\ (entry = "detect" /\ IsConstant(prices)) =>
          /\ pc # "raised"
          /\ pc = "done" => detected = FALSE

\* a maximum, a minimum, and an eligible index that ties with a neighbour and
\* is neither
C4_Witness ==
    /\ ExtremaExtracted
    /\ window_size >= 1
    /\ maxima # <<>>
    /\ minima # <<>>
    /\ \E i \in Eligible(prices, window_size) :
          /\ i \notin SeqRange(maxima) \cup SeqRange(minima)
          /\ At(prices, i) = At(prices, i + 1)
          /\ At(prices, i) > At(prices, i - 1)

(***************************************************************************)
(* C5 -- short input is not an error: when 2*windowSize >= N (the empty    *)
(* series and a series of length 1 included) both extrema lists are        *)
(* empty, the match list is empty, detect_cup_and_handle answers false,    *)
(* and nothing is raised: no min or max of an empty window is taken.       *)
(***************************************************************************)
C5_ShortInput ==
    2 * window_size >= Len(prices) =>
        /\ exc = "none"
        /\ pc # "raised"
        /\ maxima = <<>>
        /\ minima = <<>>
        /\ valid_patterns = <<>>
        /\ detected = FALSE

\* detect_cup_and_handle has answered on a series of length 1
C5_Witness ==
    /\ pc = "done"
    /\ entry = "detect"
    /\ Len(prices) = 1
    /\ detected = FALSE

(***************************************************************************)
(* C10 -- boundary window shrinkage.  As claimed: among the eligible       *)
(* indices, one close to the start or the end of the series is tested      *)
(* against a left or right window of fewer than windowSize samples.        *)
(***************************************************************************)
C10_BoundaryWindowShrinks ==
    (ExtremaExtracted /\ window_size >= 1 /\ Eligible(prices, window_size) # {}) =>
        \E i \in Eligible(prices, window_size) :
            \/ Len(left_window(i, prices, window_size)) < window_size
            \/ Len(right_window(i, prices, window_size)) < window_size

(***************************************************************************)
(* C10 as amended -- for windowSize >= 1 every index the loop of           *)
(* get_min_max_indices tests is eligible and has a left and a right        *)
(* window of exactly windowSize samples: the clipping never takes effect.  *)
(***************************************************************************)
C10_WindowsAreFull ==
    (pc # "start" /\ window_size >= 1) =>
        \A k \in 1..Len(scan_range(prices, window_size)) :
            LET i == scan_range(prices, window_size)[k] IN
            /\ i \in Eligible(prices, window_size)
            /\ Len(left_window(i, prices, window_size)) = window_size
            /\ Len(right_window(i, prices, window_size)) = window_size

\* the first and the last eligible index are extrema, judged on full windows
C10_Witness ==
    /\ ExtremaExtracted
    /\ window_size >= 2
    /\ window_size \in SeqRange(maxima) \cup SeqRange(minima)
    /\ Len(prices) - window_size - 1 \in SeqRange(maxima) \cup SeqRange(minima)

(***************************************************************************)
(* Thresholds.                                                             *)
(***************************************************************************)
NonNegative(p) == \A j \in 1..Len(p) : p[j] >= 0

\* the matches returned for the same prices, extrema and distance thresholds
\* when price threshold k is raised by delta
ReturnedWithRaised(k, delta) ==
    SeqRange(search_patterns(prices, maxima, minima,
                             [price_thresholds EXCEPT ![k] = @ + delta],
                             distance_thresholds))

Raises == {250}

(***************************************************************************)
(* C6 -- monotonicity in the price thresholds.  As claimed (checked here   *)
(* on series without negative prices): raising any single one of a_b,      *)
(* b_c, a_c, c_d, b_d, d_e yields a subset of the matches.                 *)
(***************************************************************************)
C6_RaisingAnyKeyRemoves ==
    (/\ SearchReturned
     /\ CompleteConfig(price_thresholds, distance_thresholds)
     /\ NonNegative(prices)) =>
        \A k \in PriceKeys, delta \in Raises :
            ReturnedWithRaised(k, delta) \subseteq Returned

(***************************************************************************)
(* C6 as amended -- on a series without negative prices, raising any       *)
(* single one of a_b, b_c, c_d, b_d, d_e yields a subset of the matches,   *)
(* and raising a_c yields a superset of them.                              *)
(***************************************************************************)
C6_Monotonicity ==
    (/\ SearchReturned
     /\ CompleteConfig(price_thresholds, distance_thresholds)
     /\ NonNegative(prices)) =>
        \A delta \in Raises :
            /\ \A k \in PriceKeys \ {"a_c"} :
                  ReturnedWithRaised(k, delta) \subseteq Returned
            /\ Returned \subseteq ReturnedWithRaised("a_c", delta)

\* raising one of the five keys drops a match, and raising a_c adds one
C6_Witness ==
    /\ SearchReturned
    /\ CompleteConfig(price_thresholds, distance_thresholds)
    /\ NonNegative(prices)
    /\ Returned # {}
    /\ \E k \in PriceKeys \ {"a_c"}, delta \in Raises :
          ReturnedWithRaised(k, delta) # Returned
    /\ \E delta \in Raises : ReturnedWithRaised("a_c", delta) # Returned

(***************************************************************************)
(* C7 -- invalid configuration is rejected: when the search evaluates a    *)
(* pair whose key is missing from distanceThresholds or priceThresholds,   *)
(* the call ends with an explicit InvalidConfiguration failure: it         *)
(* neither returns a match list nor ends with another error.               *)
(***************************************************************************)
SearchEnded == SearchReturned \/ exc = "KeyError"

MissingKeyEvaluated ==
    \/ search_raises(prices, maxima, minima, price_thresholds, distance_thresholds)
    \/ search_skips(prices, maxima, minima, price_thresholds, distance_thresholds)

C7_InvalidConfigurationRejected ==
    (SearchEnded /\ MissingKeyEvaluated) => exc = "InvalidConfiguration"

(***************************************************************************)
(* C8 -- degenerate anchor.  As claimed: the search raises nothing and no  *)
(* returned quintuple has a zero price at a, b, c or d.                    *)
(***************************************************************************)
HasZeroExtremum ==
    \E i \in SeqRange(maxima) \cup SeqRange(minima) : At(prices, i) = 0

C8_ZeroAnchorAlwaysFails ==
    /\ (ExtremaExtracted /\ HasZeroExtremum
        /\ CompleteConfig(price_thresholds, distance_thresholds)) => pc # "raised"
    /\ SearchReturned =>
          \A q \in Returned : \A j \in 1..4 : At(prices, q[j]) # 0

(***************************************************************************)
(* C8 as amended -- the search multiplies by the anchor and never          *)
(* divides, so a zero anchor raises nothing; no returned quintuple has a   *)
(* zero price at a; a zero price at b is accepted, and then the prices     *)
(* at c and d are positive; on a series without negative prices no         *)
(* returned quintuple has a zero price at c or d.                          *)
(***************************************************************************)
C8_ZeroAnchor ==
    /\ (ExtremaExtracted /\ HasZeroExtremum
        /\ CompleteConfig(price_thresholds, distance_thresholds)) => pc # "raised"
    /\ SearchReturned =>
          \A q \in Returned :
              /\ At(prices, q[1]) # 0
              /\ At(prices, q[2]) = 0 => At(prices, q[3]) > 0 /\ At(prices, q[4]) > 0
              /\ NonNegative(prices) => At(prices, q[3]) # 0 /\ At(prices, q[4]) # 0

\* a returned quintuple has price 0 at b
C8_Witness ==
    /\ SearchReturned
    /\ \E q \in Returned : At(prices, q[2]) = 0

(***************************************************************************)
(* The same nested loops with the three partial price checks taken out:    *)
(* every prefix that passes its ordering and distance tests is extended    *)
(* and only the full check on (a, b, c, d, e) decides.                     *)
(***************************************************************************)
unpruned_d(a, b, c, p, mx, mn, pt, dt) ==
    Flatten([k \in 1..Len(mn) |->
        LET d == mn[k] IN
        IF d > c /\ distance_is_valid(c, d, dt, "c_d")
        THEN loop_e(a, b, c, d, p, mx, pt, dt)
        ELSE <<>>])

unpruned_c(a, b, p, mx, mn, pt, dt) ==
    Flatten([k \in 1..Len(mx) |->
        LET c == mx[k] IN
        IF c > b /\ distance_is_valid(b, c, dt, "b_c")
        THEN unpruned_d(a, b, c, p, mx, mn, pt, dt)
        ELSE <<>>])

unpruned_b(a, p, mx, mn, pt, dt) ==
    Flatten([k \in 1..Len(mn) |->
        LET b == mn[k] IN
        IF b > a /\ distance_is_valid(a, b, dt, "a_b")
        THEN unpruned_c(a, b, p, mx, mn, pt, dt)
        ELSE <<>>])

unpruned_patterns(p, mx, mn, pt, dt) ==
    Flatten([i \in 1..Len(outer_candidates(mx)) |->
        unpruned_b(outer_candidates(mx)[i], p, mx, mn, pt, dt)])

\* the quintuples on which the unpruned loops run the full check
FullyChecked(mx, mn, dt) ==
    {q \in Quintuples(mx, mn) :
        /\ q[1] \in SeqRange(outer_candidates(mx))
        /\ distance_is_valid(q[1], q[2], dt, "a_b")
        /\ distance_is_valid(q[2], q[3], dt, "b_c")
        /\ distance_is_valid(q[3], q[4], dt, "c_d")
        /\ distance_is_valid(q[4], q[5], dt, "d_e")}

\* the full check reads all six price keys, so the unpruned loops raise
\* KeyError as soon as they reach one quintuple with a key absent
unpruned_raises(mx, mn, pt, dt) ==
    \E q \in FullyChecked(mx, mn, dt) :
        price_difference_raises(q[1], q[2], q[3], q[4], q[5], pt)

\* the partial checks the loops apply to the prefixes of q
PrefixesPass(q, p, pt) ==
    /\ price_difference_is_valid(q[1], q[2], None, None, None, p, pt)
    /\ price_difference_is_valid(q[1], q[2], q[3], None, None, p, pt)
    /\ price_difference_is_valid(q[1], q[2], q[3], q[4], None, p, pt)

(***************************************************************************)
(* C11 -- pruning preserves the result: a quintuple of extrema that passes *)
(* the full six-inequality check passes the partial checks on (a, b),      *)
(* (a, b, c) and (a, b, c, d), so no prefix of it is discarded; and the    *)
(* returned list equals, element for element and in the same order, the    *)
(* list built by the same loops with only the final full check.  With a    *)
(* complete price configuration the loops without pruning raise nothing.   *)
(***************************************************************************)
C11_PruningPreservesResult ==
    SearchReturned =>
        /\ \A q \in Quintuples(maxima, minima) :
              (/\ ~ price_difference_raises(q[1], q[2], q[3], q[4], q[5], price_thresholds)
               /\ price_difference_is_valid(q[1], q[2], q[3], q[4], q[5],
                                            prices, price_thresholds))
              => PrefixesPass(q, prices, price_thresholds)
        /\ DOMAIN price_thresholds = PriceKeys
              => ~ unpruned_raises(maxima, minima, price_thresholds, distance_thresholds)
        /\ ~ unpruned_raises(maxima, minima, price_thresholds, distance_thresholds)
              => valid_patterns = unpruned_patterns(prices, maxima, minima,
                                      price_thresholds, distance_thresholds)

\* matches were returned although the partial checks cut off a prefix (a, b)
\* and a prefix (a, b, c, d) that the loops had reached
C11_Witness ==
    /\ SearchReturned
    /\ CompleteConfig(price_thresholds, distance_thresholds)
    /\ valid_patterns # <<>>
    /\ \E q \in FullyChecked(maxima, minima, distance_thresholds) :
          ~ price_difference_is_valid(q[1], q[2], None, None, None,
                                      prices, price_thresholds)
    /\ \E q \in FullyChecked(maxima, minima, distance_thresholds) :
          /\ price_difference_is_valid(q[1], q[2], q[3], None, None,
                                       prices, price_thresholds)
          /\ ~ price_difference_is_valid(q[1], q[2], q[3], q[4], None,
                                         prices, price_thresholds)

(***************************************************************************)
(* C12 -- order-stable output: the returned list is in strictly ascending  *)
(* lexicographic order of (a, b, c, d, e), so it holds no quintuple twice; *)
(* and a second call with the same prices, window and thresholds ends as   *)
(* the first did: the same list in the same order, or the same exception,  *)
(* and the same boolean from detect_cup_and_handle.                        *)
(***************************************************************************)
LexLess(x, y) ==
    \E k \in 1..5 : x[k] < y[k] /\ \A j \in 1..(k - 1) : x[j] = y[j]

C12_OrderStable ==
    /\ SearchReturned =>
          /\ \A i \in 1..(Len(valid_patterns) - 1) :
                LexLess(valid_patterns[i], valid_patterns[i + 1])
          /\ Cardinality(Returned) = Len(valid_patterns)
    /\ (CallEnded /\ first # NoResult) => Outcome = first[1]

\* a second call has returned the list of the first, and the list has
\* neighbours that differ only in e, neighbours that differ already in b and
\* neighbours that differ in a
C12_Witness ==
    /\ pc = "done"
    /\ entry = "find"
    /\ first # NoResult
    /\ first[1].patterns = valid_patterns
    /\ \E i \in 1..(Len(valid_patterns) - 1) :
          /\ SubSeq(valid_patterns[i], 1, 4) = SubSeq(valid_patterns[i + 1], 1, 4)
          /\ valid_patterns[i][5] < valid_patterns[i + 1][5]
    /\ \E i \in 1..(Len(valid_patterns) - 1) :
          /\ valid_patterns[i][1] = valid_patterns[i + 1][1]
          /\ valid_patterns[i][2] < valid_patterns[i + 1][2]
    /\ \E i \in 1..(Len(valid_patterns) - 1) :
          valid_patterns[i][1] < valid_patterns[i + 1][1]

====
